---- MODULE Spec2Model ----
(***************************************************************************)
(* The dynamic MCP-to-REST gateway of fastmcp-swagger, in its two          *)
(* variants: multi_mcp.py (several backends, registry `clients` /          *)
(* `tools_cache`) and single_mcp.py (one backend, global `client`).        *)
(*                                                                         *)
(* Python values are tagged records, so that values of different Python   *)
(* types can be compared: None, int, str (a sequence of characters or      *)
(* tokens), list, dict (a function from keys to values).                   *)
(***************************************************************************)
EXTENDS Integers, Sequences, FiniteSets, TLC

VARIABLES
    variant,             \* which program runs: "multi" or "single"
    pc,                  \* position of startup_event: [phase, i]
    pending,             \* tools of tools_response.tools not yet iterated
    clients,             \* multi_mcp.clients: server name -> connection
    tools_cache,         \* multi_mcp.tools_cache: server -> (tool name -> tool_data)
    client,              \* single_mcp.client: None, or a Client and whether it is connected
    single_tools_cache,  \* single_mcp.tools_cache: tool name -> tool_data
    routes,              \* app.router.routes: the bound operation routes, in order
    listed,              \* history: what list_tools_mcp returned, per server
    failed,              \* history: servers whose startup iteration raised
    last                 \* the last request served, or the last direct call_tool

vars == <<variant, pc, pending, clients, tools_cache, client, single_tools_cache,
          routes, listed, failed, last>>

-----------------------------------------------------------------------------
(* Bounds *)

MaxTools == 2       \* tools in one list_tools_mcp response
MaxTextLen == 2     \* characters in the text of a TextContent block

-----------------------------------------------------------------------------
(* Python values *)

None == [t |-> "None"]
PyInt(n) == [t |-> "int", v |-> n]
PyStr(s) == [t |-> "str", v |-> s]
PyList(l) == [t |-> "list", v |-> l]
PyDict(d) == [t |-> "dict", v |-> d]

EmptyDict == PyDict(<<>>)

\* Python truthiness (`if x:`) of the values above.
Truthy(x) ==
    CASE x.t = "None" -> FALSE
      [] x.t = "int" -> x.v # 0
      [] x.t = "str" -> Len(x.v) > 0
      [] x.t = "list" -> Len(x.v) > 0
      [] x.t = "dict" -> DOMAIN x.v # {}

\* dict.get(key, default)
DictGet(d, key, default) == IF key \in DOMAIN d THEN d[key] ELSE default

-----------------------------------------------------------------------------
(* json.loads on the texts of the model: numbers and one-element lists *)

Digits == {"0", "7"}
TextAlphabet == {"0", "7", "[", "]", "x"}

DigitVal(c) == IF c = "0" THEN 0 ELSE 7

RECURSIVE int_of(_)
int_of(s) ==
    IF s = <<>> THEN 0
    ELSE 10 * int_of(SubSeq(s, 1, Len(s) - 1)) + DigitVal(s[Len(s)])

\* A JSON number of the alphabet: digits, no leading zero.
IsJsonNumber(s) ==
    /\ Len(s) > 0
    /\ \A i \in 1..Len(s) : s[i] \in Digits
    /\ Len(s) > 1 => s[1] # "0"

RECURSIVE json_loads(_)
json_loads(s) ==
    IF IsJsonNumber(s) THEN [ok |-> TRUE, val |-> PyInt(int_of(s))]
    ELSE IF Len(s) >= 2 /\ s[1] = "[" /\ s[Len(s)] = "]" THEN
        LET inner == SubSeq(s, 2, Len(s) - 1) IN
        IF inner = <<>> THEN [ok |-> TRUE, val |-> PyList(<<>>)]
        ELSE LET r == json_loads(inner) IN
             IF r.ok THEN [ok |-> TRUE, val |-> PyList(<<r.val>>)]
             ELSE [ok |-> FALSE, val |-> None]
    ELSE [ok |-> FALSE, val |-> None]

-----------------------------------------------------------------------------
(* Content blocks of an RPC result *)

TextContent(text) == [type |-> "text", payload |-> text]
ImageContent == [type |-> "image", payload |-> <<"png">>]

\* hasattr(block, "text")
HasText(block) == block.type = "text"

\* repr(block), the form a block takes inside str(list)
Repr(block) ==
    IF HasText(block) THEN <<"TextContent(text='">> \o block.payload \o <<"')">>
    ELSE <<"ImageContent(data='">> \o block.payload \o <<"')">>

\* str(block)
Str(block) ==
    IF HasText(block) THEN <<"text='">> \o block.payload \o <<"'">>
    ELSE <<"data='">> \o block.payload \o <<"'">>

RECURSIVE JoinRepr(_)
JoinRepr(l) ==
    IF l = <<>> THEN <<>>
    ELSE IF Len(l) = 1 THEN Repr(l[1])
    ELSE Repr(l[1]) \o <<", ">> \o JoinRepr(Tail(l))

\* str(result.content) of a list of blocks
StrList(l) == <<"[">> \o JoinRepr(l) \o <<"]">>

-----------------------------------------------------------------------------
(* call_tool: the invocation gateway and the response normalisation *)

\* What the backend does with one client.call_tool: it raises exc, or returns result.
Raise(exc) ==
    [raises |-> TRUE, exc |-> exc,
     result |-> [structured_content |-> None, data |-> None, content |-> PyList(<<>>)]]
Return(result) == [raises |-> FALSE, exc |-> <<>>, result |-> result]

\* DropNone without its filter: every key is forwarded, None or not.
KeepNone(params) == params

\* params = {k: v for k, v in params.items() if v is not None}
DropNone(params) ==
    [k \in {n \in DOMAIN params : params[n] # None} |-> params[k]]

Result(value) == PyDict([result |-> value])

\* multi_mcp.call_tool, the value returned for an RPC result
call_tool_return(result) ==
    IF Truthy(result.structured_content) THEN result.structured_content
    ELSE IF result.data # None THEN Result(result.data)
    ELSE IF Truthy(result.content) THEN
        LET first == result.content.v[1] IN
        IF result.content.t = "list" /\ Len(result.content.v) > 0 /\ HasText(first)
        THEN LET parsed == json_loads(first.payload) IN
             IF parsed.ok THEN parsed.val ELSE Result(PyStr(first.payload))
        ELSE Result(PyStr(StrList(result.content.v)))
    ELSE Result(PyStr(<<"Success">>))

\* single_mcp.call_tool, the value returned for an RPC result
single_call_tool_return(result) ==
    IF Truthy(result.structured_content) THEN result.structured_content
    ELSE IF result.data # None THEN Result(result.data)
    ELSE IF Truthy(result.content) THEN
        LET content == IF result.content.t = "list" THEN result.content.v[1]
                       ELSE result.content
            parsed == json_loads(content.payload)
        IN  IF HasText(content) /\ parsed.ok THEN parsed.val
            ELSE Result(PyStr(IF HasText(content) THEN content.payload
                              ELSE Str(content)))
    ELSE Result(PyStr(<<"Success">>))

\* The Korean message texts of the source are written in English here.
\* The outcome of a handler: HTTP status, body (the detail of an HTTPException
\* when status is not 200), whether client.call_tool was called, and with what.
Outcome(status, body, called, args) ==
    [status |-> status, body |-> body, called |-> called, args |-> args]

\* multi_mcp.call_tool
call_tool(tool_name, params, server_name, rpc) ==
    IF server_name \notin DOMAIN clients
    THEN Outcome(503, PyStr(<<server_name, " MCP server unavailable">>), FALSE, <<>>)
    ELSE LET args == DropNone(params) IN
         IF rpc.raises
         THEN Outcome(500, PyStr(<<tool_name, " execution error: ">> \o rpc.exc), TRUE, args)
         ELSE Outcome(200, call_tool_return(rpc.result), TRUE, args)

\* str(e) of the exception client.call_tool raises when no session is open
NotConnected ==
    IF client = None THEN <<"'NoneType' object has no attribute 'call_tool'">>
    ELSE <<"Client is not connected">>

\* single_mcp.call_tool
single_call_tool(tool_name, params, rpc) ==
    LET args == DropNone(params) IN
    IF client = None \/ ~client.connected
    THEN Outcome(500, PyStr(<<"error while executing tool: ">> \o NotConnected), FALSE, <<>>)
    ELSE IF rpc.raises
         THEN Outcome(500, PyStr(<<"error while executing tool: ">> \o rpc.exc), TRUE, args)
         ELSE Outcome(200, single_call_tool_return(rpc.result), TRUE, args)

-----------------------------------------------------------------------------
(* Configuration *)

MCP_SERVERS ==
    << [name |-> "calculator tools", url |-> "http://127.0.0.1:8002/mcp2"],
       [name |-> "test tools", url |-> "http://127.0.0.1:8001/mcp1"] >>

ServerNames == {MCP_SERVERS[i].name : i \in 1..Len(MCP_SERVERS)}

MCP_URL == "http://127.0.0.1:8002/mcp2"

\* The tag single_mcp gives every route; it stands for the one backend.
SingleTag == "FastMCP Tools"

-----------------------------------------------------------------------------
(* create_dynamic_endpoint: from a tool's inputSchema to a bound route *)

get_python_type(json_type) ==
    CASE json_type = "string" -> "str"
      [] json_type = "integer" -> "int"
      [] json_type = "number" -> "float"
      [] json_type = "boolean" -> "bool"
      [] OTHER -> "str"

\* str.isidentifier() and not keyword.iskeyword(), as inspect.Parameter requires
NonIdentifiers == {"bad-name", "class"}
IsIdentifier(name) == name \notin NonIdentifiers

Range(f) == {f[x] : x \in DOMAIN f}

\* The parameter contract of a tool: name -> [type, required]; the description
\* and title of a parameter only document it.
ParamInfo(input_schema) ==
    LET properties == DictGet(input_schema, "properties", <<>>)
        required_fields == Range(DictGet(input_schema, "required", <<>>))
    IN  [name \in DOMAIN properties |->
            [type |-> get_python_type(DictGet(properties[name], "type", "string")),
             required |-> name \in required_fields]]

\* create_dynamic_endpoint raises: None has no .get (AttributeError), and
\* inspect.Parameter rejects a name that is no identifier (ValueError).
\* Otherwise it binds the route GET /{tool_name}, tagged with the server.
create_dynamic_endpoint(tool_name, tool_data, server_name) ==
    LET input_schema == DictGet(tool_data, "inputSchema", EmptyDict) IN
    IF input_schema = None THEN [raises |-> TRUE, route |-> None]
    ELSE LET param_info == ParamInfo(input_schema.v) IN
         IF \E name \in DOMAIN param_info : ~IsIdentifier(name)
         THEN [raises |-> TRUE, route |-> None]
         ELSE [raises |-> FALSE,
               route |-> [path |-> <<"/", tool_name>>, tool_name |-> tool_name,
                          server_name |-> server_name, param_info |-> param_info]]

\* The tool_data dict startup_event builds from a discovered tool; title,
\* description and outputSchema only document the route.
ToolData(tool) == [name |-> tool.name, inputSchema |-> tool.inputSchema]

-----------------------------------------------------------------------------
(* The request side of a bound route: FastAPI's validation of the query      *)
(* against the signature create_signature gave the handler                   *)

IsDigits(raw) == Len(raw) > 0 /\ \A i \in 1..Len(raw) : raw[i] \in Digits

\* The value a query string takes under a parameter's annotation
Coerce(type, raw) ==
    CASE type = "str" -> [ok |-> TRUE, val |-> PyStr(raw)]
      [] type = "int" ->
            IF IsDigits(raw) THEN [ok |-> TRUE, val |-> PyInt(int_of(raw))]
            ELSE [ok |-> FALSE, val |-> None]
      [] type = "float" ->
            IF IsDigits(raw) THEN [ok |-> TRUE, val |-> [t |-> "float", v |-> int_of(raw)]]
            ELSE [ok |-> FALSE, val |-> None]
      [] type = "bool" ->
            IF raw \in {<<"0">>, <<"1">>}
            THEN [ok |-> TRUE, val |-> [t |-> "bool", v |-> raw = <<"1">>]]
            ELSE [ok |-> FALSE, val |-> None]

\* Validate with every parameter bound as Query(None): none is required.
ValidateAllOptional(param_info, query) ==
    [ok |-> \A name \in DOMAIN param_info :
                name \in DOMAIN query => Coerce(param_info[name].type, query[name]).ok,
     kwargs |-> [name \in DOMAIN param_info |->
                    IF name \in DOMAIN query
                    THEN Coerce(param_info[name].type, query[name]).val
                    ELSE None]]

\* Query(...) makes a parameter required, Query(None) lets it default to None.
Validate(param_info, query) ==
    [ok |-> \A name \in DOMAIN param_info :
                IF name \in DOMAIN query
                THEN Coerce(param_info[name].type, query[name]).ok
                ELSE ~param_info[name].required,
     kwargs |-> [name \in DOMAIN param_info |->
                    IF name \in DOMAIN query
                    THEN Coerce(param_info[name].type, query[name]).val
                    ELSE None]]

\* Dispatch with the last route bound for the path winning.
DispatchLast(path) ==
    LET matching == {i \in 1..Len(routes) : routes[i].path = path} IN
    IF matching = {} THEN 0
    ELSE CHOOSE i \in matching : \A j \in matching : i >= j

\* The router serves a path with the first route bound for it (0: none, 404).
Dispatch(path) ==
    LET matching == {i \in 1..Len(routes) : routes[i].path = path} IN
    IF matching = {} THEN 0
    ELSE CHOOSE i \in matching : \A j \in matching : i <= j

-----------------------------------------------------------------------------
(* The environment: what the backends list and return, what callers send *)

Tool(name, inputSchema) == [name |-> name, inputSchema |-> inputSchema]

AddTool ==
    Tool("add", PyDict([properties |-> [a |-> [type |-> "integer"], b |-> [title |-> "B"]],
                        required |-> <<"a">>]))
AddToolNoSchema == Tool("add", None)
GreetTool ==
    Tool("greet", PyDict([properties |-> [name |-> [type |-> "string"]],
                          required |-> <<"name", "lang">>]))
GreetToolBadName ==
    Tool("greet", PyDict([properties |-> ("bad-name" :> [type |-> "string"])]))
NowTool == Tool("now", EmptyDict)

ToolUniverse == {AddTool, AddToolNoSchema, GreetTool, GreetToolBadName, NowTool}

SeqsUpTo(S, n) == UNION {[1..k -> S] : k \in 0..n}

AllListings == SeqsUpTo(ToolUniverse, MaxTools)
FewListings == {<<AddTool>>, <<GreetTool, NowTool>>}

Paths == {<<"/", n>> : n \in {"add", "greet", "now"}}

QueryNames == {"a", "b", "name"}
RawValues == {<<"7">>, <<"0">>, <<"x">>}
AllQueries == UNION {[S -> RawValues] : S \in SUBSET QueryNames}
FewQueries == {[n \in {} |-> <<>>], [a |-> <<"7">>], [name |-> <<"x">>]}

Texts == SeqsUpTo(TextAlphabet, MaxTextLen)
Blocks == {TextContent(t) : t \in Texts} \cup {ImageContent}
Contents ==
    {PyList(<<>>)} \cup {PyList(<<b>>) : b \in Blocks}
                   \cup {PyList(<<b, ImageContent>>) : b \in Blocks}
RpcResults ==
    [structured_content : {None, EmptyDict, PyDict([x |-> PyInt(1)])},
     data : {None, PyInt(0), PyInt(5)},
     content : Contents]
Exceptions == {<<"Cannot divide by zero">>}

AllRpcs == {Return(r) : r \in RpcResults} \cup {Raise(e) : e \in Exceptions}
FewRpcs ==
    {Return([structured_content |-> None, data |-> PyInt(5), content |-> PyList(<<>>)]),
     Raise(<<"Cannot divide by zero">>)}

\* The arguments of a call_tool made outside a route
DirectParams == {[a |-> PyInt(7), b |-> None]}

-----------------------------------------------------------------------------
(* State *)

NoRpc == Raise(<<>>)

\* The record of one request: how it came in, where it went, how it ended.
Served(kind, path, route, tool, server, query, rpc, out) ==
    [kind |-> kind, path |-> path, route |-> route, tool |-> tool, server |-> server,
     query |-> query, rpc |-> IF out.called THEN rpc ELSE NoRpc,
     status |-> out.status, body |-> out.body, called |-> out.called, args |-> out.args]

NoRequest ==
    Served("none", <<>>, 0, "", "", <<>>, NoRpc, Outcome(0, None, FALSE, <<>>))

Init ==
    /\ variant \in {"multi", "single"}
    /\ pc = [phase |-> "connect", i |-> 1]
    /\ pending = <<>>
    /\ clients = <<>>
    /\ tools_cache = <<>>
    /\ client = None
    /\ single_tools_cache = <<>>
    /\ routes = <<>>
    /\ listed = [s \in ServerNames \cup {SingleTag} |-> <<>>]
    /\ failed = {}
    /\ last = NoRequest

-----------------------------------------------------------------------------
(* multi_mcp.startup_event: for each server, connect, list, bind each tool *)

\* for server in MCP_SERVERS: the position after the iteration of server i
NextServer(i) ==
    IF i < Len(MCP_SERVERS) THEN [phase |-> "connect", i |-> i + 1]
    ELSE [phase |-> "serving", i |-> i + 1]

\* Continue as a `break`: the first failing server ends the loop.
Break(i) == [phase |-> "serving", i |-> Len(MCP_SERVERS) + 1]

\* except Exception: continue
Continue(i) == NextServer(i)

\* client = Client(url); await client.__aenter__(); clients[name] = client
startup_connect ==
    /\ variant = "multi" /\ pc.phase = "connect"
    /\ LET name == MCP_SERVERS[pc.i].name IN
       \E connects \in BOOLEAN :
          IF connects
          THEN /\ clients' = (name :> [url |-> MCP_SERVERS[pc.i].url]) @@ clients
               /\ pc' = [pc EXCEPT !.phase = "list"]
               /\ failed' = failed
          ELSE /\ clients' = clients
               /\ pc' = Continue(pc.i)
               /\ failed' = failed \cup {name}
    /\ UNCHANGED <<variant, pending, tools_cache, client, single_tools_cache, routes,
                   listed, last>>

\* tools_response = await client.list_tools_mcp(); tools_cache[name] = {}
startup_list_tools(Listings) ==
    /\ variant = "multi" /\ pc.phase = "list"
    /\ LET name == MCP_SERVERS[pc.i].name IN
       \/ /\ pc' = Continue(pc.i)
          /\ failed' = failed \cup {name}
          /\ UNCHANGED <<tools_cache, pending, listed>>
       \/ \E tools \in Listings :
             /\ tools_cache' = (name :> <<>>) @@ tools_cache
             /\ pending' = tools
             /\ listed' = [listed EXCEPT ![name] = tools]
             /\ pc' = IF tools = <<>> THEN NextServer(pc.i)
                      ELSE [pc EXCEPT !.phase = "bind"]
             /\ failed' = failed
    /\ UNCHANGED <<variant, clients, client, single_tools_cache, routes, last>>

\* One iteration of `for tool in tools_response.tools`
startup_bind_tool ==
    /\ variant = "multi" /\ pc.phase = "bind"
    /\ LET name == MCP_SERVERS[pc.i].name
           tool == Head(pending)
           tool_data == ToolData(tool)
           bound == create_dynamic_endpoint(tool.name, tool_data, name)
       IN  /\ tools_cache' = [tools_cache EXCEPT ![name] = (tool.name :> tool_data) @@ @]
           /\ IF bound.raises
              THEN /\ routes' = routes
                   /\ pending' = <<>>
                   /\ pc' = Continue(pc.i)
                   /\ failed' = failed \cup {name}
              ELSE /\ routes' = Append(routes, bound.route)
                   /\ pending' = Tail(pending)
                   /\ pc' = IF Tail(pending) = <<>> THEN NextServer(pc.i) ELSE pc
                   /\ failed' = failed
    /\ UNCHANGED <<variant, clients, client, single_tools_cache, listed, last>>

-----------------------------------------------------------------------------
(* single_mcp.startup_event: one try block around connect, list and bind *)

\* single_mcp.create_dynamic_endpoint takes the same steps as the multi one,
\* with the fixed tag "FastMCP Tools".
single_create_dynamic_endpoint(tool_name, tool_data) ==
    create_dynamic_endpoint(tool_name, tool_data, SingleTag)

\* The end of single_mcp.startup_event, by return or by its except clause
SingleDone == [phase |-> "serving", i |-> 2]

\* client = Client(MCP_URL); await client.__aenter__()
single_startup_connect ==
    /\ variant = "single" /\ pc.phase = "connect"
    /\ \E connects \in BOOLEAN :
          /\ client' = [t |-> "Client", connected |-> connects]
          /\ pc' = IF connects THEN [pc EXCEPT !.phase = "list"] ELSE SingleDone
          /\ failed' = IF connects THEN failed ELSE failed \cup {SingleTag}
    /\ UNCHANGED <<variant, pending, clients, tools_cache, single_tools_cache, routes,
                   listed, last>>

\* tools_response = await client.list_tools_mcp()
single_startup_list_tools(Listings) ==
    /\ variant = "single" /\ pc.phase = "list"
    /\ \/ /\ pc' = SingleDone
          /\ failed' = failed \cup {SingleTag}
          /\ UNCHANGED <<pending, listed>>
       \/ \E tools \in Listings :
             /\ pending' = tools
             /\ listed' = [listed EXCEPT ![SingleTag] = tools]
             /\ pc' = IF tools = <<>> THEN SingleDone ELSE [pc EXCEPT !.phase = "bind"]
             /\ failed' = failed
    /\ UNCHANGED <<variant, clients, tools_cache, client, single_tools_cache, routes, last>>

\* One iteration of `for tool in tools_response.tools`
single_startup_bind_tool ==
    /\ variant = "single" /\ pc.phase = "bind"
    /\ LET tool == Head(pending)
           tool_data == ToolData(tool)
           bound == single_create_dynamic_endpoint(tool.name, tool_data)
       IN  /\ single_tools_cache' = (tool.name :> tool_data) @@ single_tools_cache
           /\ IF bound.raises
              THEN /\ routes' = routes
                   /\ pending' = <<>>
                   /\ pc' = SingleDone
                   /\ failed' = failed \cup {SingleTag}
              ELSE /\ routes' = Append(routes, bound.route)
                   /\ pending' = Tail(pending)
                   /\ pc' = IF Tail(pending) = <<>> THEN SingleDone ELSE pc
                   /\ failed' = failed
    /\ UNCHANGED <<variant, clients, tools_cache, client, listed, last>>

-----------------------------------------------------------------------------
(* Requests *)

NotFound == Outcome(404, PyStr(<<"Not Found">>), FALSE, <<>>)
Unprocessable == Outcome(422, PyStr(<<"Unprocessable Entity">>), FALSE, <<>>)

\* The handler of the route: async def tool_endpoint(**kwargs)
tool_endpoint(route, kwargs, rpc) ==
    IF variant = "multi" THEN call_tool(route.tool_name, kwargs, route.server_name, rpc)
    ELSE single_call_tool(route.tool_name, kwargs, rpc)

\* GET path?query, once the application serves. A request changes nothing
\* of the program's state, so `last` records one request per behaviour.
Request(Queries, Rpcs) ==
    /\ pc.phase = "serving"
    /\ last = NoRequest
    /\ \E path \in Paths, query \in Queries, rpc \in Rpcs :
          LET r == Dispatch(path) IN
          IF r = 0
          THEN last' = Served("http", path, 0, "", "", query, rpc, NotFound)
          ELSE LET route == routes[r]
                   valid == Validate(route.param_info, query)
                   out == IF valid.ok THEN tool_endpoint(route, valid.kwargs, rpc)
                          ELSE Unprocessable
               IN  last' = Served("http", path, r, route.tool_name, route.server_name,
                                  query, rpc, out)
    /\ UNCHANGED <<variant, pc, pending, clients, tools_cache, client, single_tools_cache,
                   routes, listed, failed>>

\* call_tool called as a function of the module, for any server name
DirectCall(Rpcs) ==
    /\ variant = "multi"
    /\ last = NoRequest
    /\ \E tool_name \in {"add"}, params \in DirectParams, server_name \in ServerNames,
          rpc \in Rpcs :
          last' = Served("direct", <<>>, 0, tool_name, server_name, <<>>, rpc,
                         call_tool(tool_name, params, server_name, rpc))
    /\ UNCHANGED <<variant, pc, pending, clients, tools_cache, client, single_tools_cache,
                   routes, listed, failed>>

SingleDirectCall(Rpcs) ==
    /\ variant = "single"
    /\ last = NoRequest
    /\ \E tool_name \in {"add"}, params \in DirectParams, rpc \in Rpcs :
          last' = Served("direct", <<>>, 0, tool_name, SingleTag, <<>>, rpc,
                         single_call_tool(tool_name, params, rpc))
    /\ UNCHANGED <<variant, pc, pending, clients, tools_cache, client, single_tools_cache,
                   routes, listed, failed>>

-----------------------------------------------------------------------------
(* multi_mcp.root: the listing GET / returns *)

\* t_data.get("inputSchema", {}).get("properties", {}) raises on a cached None.
root ==
    IF \E s \in DOMAIN tools_cache : \E n \in DOMAIN tools_cache[s] :
          DictGet(tools_cache[s][n], "inputSchema", EmptyDict) = None
    THEN [raises |-> TRUE, available_servers |-> {}]
    ELSE [raises |-> FALSE,
          available_servers |->
            {[server |-> s,
              tools |-> {[name |-> n, endpoint |-> <<"/", n>>,
                          parameters |->
                            DOMAIN DictGet(DictGet(tools_cache[s][n], "inputSchema",
                                                   EmptyDict).v, "properties", <<>>)]
                         : n \in DOMAIN tools_cache[s]},
              total |-> Cardinality(DOMAIN tools_cache[s])]
             : s \in DOMAIN tools_cache}]

-----------------------------------------------------------------------------
(* Specifications *)

NextIn(Listings, Queries, Rpcs) ==
    \/ startup_connect
    \/ startup_list_tools(Listings)
    \/ startup_bind_tool
    \/ single_startup_connect
    \/ single_startup_list_tools(Listings)
    \/ single_startup_bind_tool
    \/ Request(Queries, Rpcs)
    \/ DirectCall(Rpcs)
    \/ SingleDirectCall(Rpcs)

\* Every listing the backends may give; a few requests and RPC results.
Next == NextIn(AllListings, FewQueries, FewRpcs)
Spec == Init /\ [][Next]_vars

\* Every query a caller may send, against a few listings.
NextQuery == NextIn(FewListings, AllQueries, FewRpcs)
SpecQuery == Init /\ [][NextQuery]_vars

\* Every RPC result a backend may return, against a few listings and queries.
NextRpc == NextIn(FewListings, FewQueries, AllRpcs)
SpecRpc == Init /\ [][NextRpc]_vars

-----------------------------------------------------------------------------
(* Claims *)

\* The request of `last` went through a bound route.
Routed == last.kind = "http" /\ last.route # 0

\* The inputSchema of the operation that served `last`, from the cache.
ServedSchema ==
    IF variant = "multi" THEN tools_cache[last.server][last.tool].inputSchema.v
    ELSE single_tools_cache[last.tool].inputSchema.v

\* The parameters an inputSchema declares, and those of them it requires.
Declared(schema) == DOMAIN DictGet(schema, "properties", <<>>)
DeclaredRequired(schema) ==
    Declared(schema) \cap Range(DictGet(schema, "required", <<>>))

\* The chain C1 states, clause by clause.
ClaimedNormalization(result) ==
    IF result.structured_content # None /\ result.structured_content # EmptyDict
    THEN result.structured_content
    ELSE IF result.data # None THEN PyDict([result |-> result.data])
    ELSE IF Len(result.content.v) > 0 THEN
        LET first == result.content.v[1] IN
        IF ~HasText(first) THEN PyDict([result |-> PyStr(Str(first))])
        ELSE IF json_loads(first.payload).ok THEN json_loads(first.payload).val
        ELSE PyDict([result |-> PyStr(first.payload)])
    ELSE PyDict([result |-> PyStr(<<"Success">>)])

\* C1: whenever the backend returned a result, the value call_tool returns is
\* the one the first-match-wins chain gives: structured content, else
\* {"result": data}, else the first content element (parsed text, wrapped text,
\* or the wrapped string form of that element), else {"result": "Success"}.
C1_NormalizationChain ==
    (last.called /\ ~last.rpc.raises) =>
        /\ last.status = 200
        /\ last.body = ClaimedNormalization(last.rpc.result)

\* C2: a request through a bound route that omits a parameter the operation's
\* inputSchema declares and requires is answered 422, and client.call_tool is
\* not called for it.
C2_RequiredOmitted ==
    (Routed /\ DeclaredRequired(ServedSchema) \ DOMAIN last.query # {}) =>
        /\ last.status = 422
        /\ ~last.called

C2_Witness ==
    /\ Routed
    /\ DeclaredRequired(ServedSchema) \ DOMAIN last.query # {}
    /\ last.status = 422

\* C3: the argument map passed to client.call_tool holds exactly the declared
\* parameters the caller supplied, each with its coerced value and none None.
C3_ExactlySupplied ==
    (Routed /\ last.called) =>
        /\ DOMAIN last.args = Declared(ServedSchema) \cap DOMAIN last.query
        /\ \A n \in DOMAIN last.args :
              /\ last.args[n] # None
              /\ last.args[n] =
                    Coerce(get_python_type(
                               DictGet(DictGet(ServedSchema, "properties", <<>>)[n],
                                       "type", "string")),
                           last.query[n]).val

C3_Witness ==
    /\ Routed /\ last.called
    /\ Declared(ServedSchema) \ DOMAIN last.query # {}
    /\ DOMAIN last.args # {}
    /\ \E n \in DOMAIN last.args : last.args[n] = PyInt(0)

ServerIndex(s) == CHOOSE i \in 1..Len(MCP_SERVERS) : MCP_SERVERS[i].name = s

\* The routes bound with the tag of server s, in the order they were bound.
RoutesOf(s) ==
    LET Tagged(r) == r.server_name = s IN SelectSeq(routes, Tagged)

\* The cached tools of server s (none when it has no entry).
CacheOf(s) ==
    IF variant = "single" THEN single_tools_cache
    ELSE IF s \in DOMAIN tools_cache THEN tools_cache[s] ELSE <<>>

\* Binding this tool of server s raises.
BindFails(s, tool) == create_dynamic_endpoint(tool.name, ToolData(tool), s).raises

StartupDone == pc.phase = "serving"

\* C4: after startup of multi_mcp, a server whose connection, discovery or
\* binding raised has no route, no entry in the root listing and no connection
\* in clients.
C4_FailedSourceLeavesNothing ==
    (variant = "multi" /\ StartupDone) =>
        \A s \in failed :
            /\ RoutesOf(s) = <<>>
            /\ \A e \in root.available_servers : e.server # s
            /\ s \notin DOMAIN clients

\* C5: after startup, every tool a server listed whose own binding does not
\* raise is in the cache and has a route, whatever other tools of the same
\* listing did.
C5_OnlyFailingToolSkipped ==
    StartupDone =>
        \A s \in DOMAIN listed : \A k \in 1..Len(listed[s]) :
            ~BindFails(s, listed[s][k]) =>
                /\ listed[s][k].name \in DOMAIN CacheOf(s)
                /\ \E i \in 1..Len(routes) :
                      /\ routes[i].server_name = s
                      /\ routes[i].tool_name = listed[s][k].name

\* C6: a call_tool for a source without a live connection ends with status 503
\* and without a remote call.
NoLiveConnection ==
    IF variant = "multi" THEN last.server \notin DOMAIN clients
    ELSE client = None \/ ~client.connected

C6_Unavailable503 ==
    (last.kind = "direct" /\ NoLiveConnection) =>
        /\ last.status = 503
        /\ ~last.called

\* s holds sub as a contiguous part.
Contains(s, sub) ==
    \E i \in 1..(Len(s) - Len(sub) + 1) : SubSeq(s, i, i + Len(sub) - 1) = sub

\* C7: when the remote call raises, the outcome is status 500 with a message
\* that holds the operation's name and the text of the exception.
C7_ErrorNamesOperation ==
    (last.called /\ last.rpc.raises) =>
        /\ last.status = 500
        /\ Contains(last.body.v, <<last.tool>>)
        /\ Contains(last.body.v, last.rpc.exc)

\* C8: after startup of multi_mcp, a tool discovered first in its listing and
\* without inputSchema is bound to a route with no parameters.
C8_AbsentSchemaBinds ==
    (variant = "multi" /\ StartupDone) =>
        \A s \in ServerNames :
            (listed[s] # <<>> /\ listed[s][1].inputSchema = None) =>
                \E i \in 1..Len(RoutesOf(s)) :
                    /\ RoutesOf(s)[i].tool_name = listed[s][1].name
                    /\ DOMAIN RoutesOf(s)[i].param_info = {}

\* Two servers have a route bound for the path of `last`.
Shadowing ==
    \E i, j \in 1..Len(routes) :
        /\ routes[i].path = last.path /\ routes[j].path = last.path
        /\ routes[i].server_name # routes[j].server_name

\* C9 as stated: in multi_mcp, a path bound by two servers is served by the
\* server processed later at startup.
C9_LaterShadows ==
    (variant = "multi" /\ Routed /\ Shadowing) =>
        \A j \in 1..Len(routes) :
            routes[j].path = last.path =>
                ServerIndex(routes[j].server_name) <= ServerIndex(last.server)

\* C9 as amended: such a path is served by the server processed earlier.
C9_EarlierShadows ==
    (variant = "multi" /\ Routed /\ Shadowing) =>
        \A j \in 1..Len(routes) :
            routes[j].path = last.path =>
                ServerIndex(last.server) <= ServerIndex(routes[j].server_name)

C9_Witness ==
    variant = "multi" /\ Routed /\ Shadowing /\ last.status = 200

\* What a server that does not fail ends startup with, from its listing alone.
CacheFrom(tools) ==
    [n \in {tools[k].name : k \in 1..Len(tools)} |->
        LET k == CHOOSE k \in 1..Len(tools) :
                    /\ tools[k].name = n
                    /\ \A j \in 1..Len(tools) : tools[j].name = n => j <= k
        IN  ToolData(tools[k])]
RoutesFrom(s, tools) ==
    [k \in 1..Len(tools) |->
        create_dynamic_endpoint(tools[k].name, ToolData(tools[k]), s).route]

\* C10: startup of multi_mcp never stops before its end, and at its end every
\* server that did not fail has its connection in clients, all the tools it
\* listed in the cache and a route for each, the same whatever other servers did.
C10_SourcesIndependent ==
    variant = "multi" =>
        /\ ~StartupDone =>
              ENABLED (startup_connect \/ startup_list_tools(AllListings)
                          \/ startup_bind_tool)
        /\ StartupDone =>
              \A s \in ServerNames \ failed :
                  /\ s \in DOMAIN clients
                  /\ s \in DOMAIN tools_cache
                  /\ tools_cache[s] = CacheFrom(listed[s])
                  /\ RoutesOf(s) = RoutesFrom(s, listed[s])

C10_Witness ==
    /\ variant = "multi" /\ StartupDone
    /\ MCP_SERVERS[1].name \in failed
    /\ RoutesOf(MCP_SERVERS[1].name) # <<>>
    /\ MCP_SERVERS[2].name \notin failed
    /\ Len(listed[MCP_SERVERS[2].name]) = MaxTools

\* The names of the operations the root listing shows for server s.
ListedByRoot(s) == DOMAIN CacheOf(s)

\* The names of the operations with a route bound under the tag of server s.
BoundFor(s) == {RoutesOf(s)[i].tool_name : i \in 1..Len(RoutesOf(s))}

\* C11: after any startup of multi_mcp, a name is in tools_cache for a server
\* exactly when a route /{name} tagged with that server is bound, and the
\* server of every bound route has its connection in clients.
C11_ListingAgreesWithRoutes ==
    (variant = "multi" /\ StartupDone) =>
        /\ \A s \in ServerNames : ListedByRoot(s) = BoundFor(s)
        /\ \A i \in 1..Len(routes) : routes[i].server_name \in DOMAIN clients

====
